---- MODULE Spec2Model ----
(***************************************************************************)
(* Model of "Exercise 5/Exercise 5_1_d.py": the BPMNEvaluator class        *)
(* (fuzzy greedy matcher with precision / recall) and the driver loop that *)
(* feeds it with the labels extracted from an LLM response.                *)
(*                                                                         *)
(* A label (Python str) is a sequence of one-character strings.  Python    *)
(* lists are objects: the ground-truth lists live in `heap` and the        *)
(* program variables hold references to them, so that aliasing and         *)
(* in-place mutation (list.remove) are visible.  Ratios are kept as        *)
(* integer fractions; the threshold is in tenths, precision and recall     *)
(* are in hundredths (round(x, 2)).                                        *)
(***************************************************************************)
EXTENDS Integers, Sequences, FiniteSets, TLC

\* ---------------------------------------------------------------- bounds
MaxGt == 2      \* longest ground-truth list given to the evaluator alone
MaxEx == 3      \* longest extracted list given to the evaluator alone
MaxCalls == 2   \* calls of calculate_metrics with the same arguments

\* ------------------------------------------------------------- constants
DefaultThreshold == 8    \* threshold=0.8, in tenths
DriverThreshold == 7     \* BPMNEvaluator(threshold=0.7), in tenths

\* ----------------------------------------------------------- str.lower()
UpperToLower ==
  [c \in {"A","B","C","D","E","F","G","H","I","J","K","L","M","N","O","P",
          "Q","R","S","T","U","V","W","X","Y","Z"} |->
     CASE c = "A" -> "a" [] c = "B" -> "b" [] c = "C" -> "c" [] c = "D" -> "d"
       [] c = "E" -> "e" [] c = "F" -> "f" [] c = "G" -> "g" [] c = "H" -> "h"
       [] c = "I" -> "i" [] c = "J" -> "j" [] c = "K" -> "k" [] c = "L" -> "l"
       [] c = "M" -> "m" [] c = "N" -> "n" [] c = "O" -> "o" [] c = "P" -> "p"
       [] c = "Q" -> "q" [] c = "R" -> "r" [] c = "S" -> "s" [] c = "T" -> "t"
       [] c = "U" -> "u" [] c = "V" -> "v" [] c = "W" -> "w" [] c = "X" -> "x"
       [] c = "Y" -> "y" [] c = "Z" -> "z"]

Lower(s) ==
  [k \in 1..Len(s) |-> IF s[k] \in DOMAIN UpperToLower THEN UpperToLower[s[k]] ELSE s[k]]

\* A JSON element that is not a string (a number, a list, ...): it has no .lower().
NonString == "<not a str>"

IsStr(x) == x # NonString

\* ------------------------------------------------------ test_cases
\* The three cases of the driver: name and ground_truth (the passage text only
\* feeds the prompt).
test_cases ==
  <<
   [name |-> "Case 1: Passenger Security",
    ground_truth |-> <<
       "Passenger shows boarding pass",
       "Passenger goes to security check",
       "Suspicious?",
       "Passenger is checked manually",
       "Passenger goes to gate" >>],
   [name |-> "Case 2: Order Processing",
    ground_truth |-> <<
       "Order is received",
       "Checks stock availability",
       "stock is available?",
       "Shipped",
       "Error Email is sent",
       "order is fulfilled" >>],
   [name |-> "Case 3: Loan Application",
    ground_truth |-> <<
       "submits a loan application",
       "Assess credit risk",
       "Is the risk acceptable?",
       "Approve Loan",
       "Reject Loan" >>]
  >>

\* Labels given to the evaluator when it is called on its own.
EvalLabels == {"ab", "AB", "abc", "bc"}

\* The label a response may carry.
R_gate == "Passenger goes to the gate"

\* Every label of the model.
Labels ==
  EvalLabels \cup {R_gate}
    \cup UNION {{test_cases[c].ground_truth[k] : k \in 1..Len(test_cases[c].ground_truth)} :
                c \in 1..Len(test_cases)}

\* The characters of each label (a str as the sequence of its characters).
Chars ==
  [l \in Labels |->
     CASE l = "ab" ->
            <<"a", "b">>
       [] l = "AB" ->
            <<"A", "B">>
       [] l = "abc" ->
            <<"a", "b", "c">>
       [] l = "bc" ->
            <<"b", "c">>
       [] l = "Passenger goes to the gate" ->
            <<"P", "a", "s", "s", "e", "n", "g", "e", "r", " ", "g", "o", "e", "s", " ", "t", "o", " ", "t", "h", "e", " ", "g", "a", "t", "e">>
       [] l = "Passenger shows boarding pass" ->
            <<"P", "a", "s", "s", "e", "n", "g", "e", "r", " ", "s", "h", "o", "w", "s", " ", "b", "o", "a", "r", "d", "i", "n", "g", " ", "p", "a", "s", "s">>
       [] l = "Passenger goes to security check" ->
            <<"P", "a", "s", "s", "e", "n", "g", "e", "r", " ", "g", "o", "e", "s", " ", "t", "o", " ", "s", "e", "c", "u", "r", "i", "t", "y", " ", "c", "h", "e", "c", "k">>
       [] l = "Suspicious?" ->
            <<"S", "u", "s", "p", "i", "c", "i", "o", "u", "s", "?">>
       [] l = "Passenger is checked manually" ->
            <<"P", "a", "s", "s", "e", "n", "g", "e", "r", " ", "i", "s", " ", "c", "h", "e", "c", "k", "e", "d", " ", "m", "a", "n", "u", "a", "l", "l", "y">>
       [] l = "Passenger goes to gate" ->
            <<"P", "a", "s", "s", "e", "n", "g", "e", "r", " ", "g", "o", "e", "s", " ", "t", "o", " ", "g", "a", "t", "e">>
       [] l = "Order is received" ->
            <<"O", "r", "d", "e", "r", " ", "i", "s", " ", "r", "e", "c", "e", "i", "v", "e", "d">>
       [] l = "Checks stock availability" ->
            <<"C", "h", "e", "c", "k", "s", " ", "s", "t", "o", "c", "k", " ", "a", "v", "a", "i", "l", "a", "b", "i", "l", "i", "t", "y">>
       [] l = "stock is available?" ->
            <<"s", "t", "o", "c", "k", " ", "i", "s", " ", "a", "v", "a", "i", "l", "a", "b", "l", "e", "?">>
       [] l = "Shipped" ->
            <<"S", "h", "i", "p", "p", "e", "d">>
       [] l = "Error Email is sent" ->
            <<"E", "r", "r", "o", "r", " ", "E", "m", "a", "i", "l", " ", "i", "s", " ", "s", "e", "n", "t">>
       [] l = "order is fulfilled" ->
            <<"o", "r", "d", "e", "r", " ", "i", "s", " ", "f", "u", "l", "f", "i", "l", "l", "e", "d">>
       [] l = "submits a loan application" ->
            <<"s", "u", "b", "m", "i", "t", "s", " ", "a", " ", "l", "o", "a", "n", " ", "a", "p", "p", "l", "i", "c", "a", "t", "i", "o", "n">>
       [] l = "Assess credit risk" ->
            <<"A", "s", "s", "e", "s", "s", " ", "c", "r", "e", "d", "i", "t", " ", "r", "i", "s", "k">>
       [] l = "Is the risk acceptable?" ->
            <<"I", "s", " ", "t", "h", "e", " ", "r", "i", "s", "k", " ", "a", "c", "c", "e", "p", "t", "a", "b", "l", "e", "?">>
       [] l = "Approve Loan" ->
            <<"A", "p", "p", "r", "o", "v", "e", " ", "L", "o", "a", "n">>
       [] l = "Reject Loan" ->
            <<"R", "e", "j", "e", "c", "t", " ", "L", "o", "a", "n">>]

\* ------------------------------------------- difflib.SequenceMatcher
\* Positions are 0-based and ranges half-open as in difflib: a[i] is a[i+1] here.

\* Length of the common run of a and b that ends at a[i], b[j] inside the
\* window a[alo:], b[blo:]  (difflib's j2len[j] while scanning a[i]).
RECURSIVE RunLen(_, _, _, _, _, _)
RunLen(a, b, i, j, alo, blo) ==
  IF i < alo \/ j < blo THEN 0
  ELSE IF a[i + 1] # b[j + 1] THEN 0
  ELSE 1 + RunLen(a, b, i - 1, j - 1, alo, blo)

\* find_longest_match: the longest block a[i:i+k] == b[j:j+k] inside
\* a[alo:ahi], b[blo:bhi]; among the longest the one found first by the scan
\* (i ascending, then j ascending: bestsize is replaced only by k > bestsize).
\* No element is junk (isjunk is None, and autojunk needs 200 or more
\* characters, far beyond any label), so the junk extension loops do nothing.
FindLongestMatch(a, b, alo, ahi, blo, bhi) ==
  LET ends == {p \in (alo..(ahi - 1)) \X (blo..(bhi - 1)) :
                 RunLen(a, b, p[1], p[2], alo, blo) > 0}
      size(p) == RunLen(a, b, p[1], p[2], alo, blo)
      before(p, q) == p[1] < q[1] \/ (p[1] = q[1] /\ p[2] < q[2])
  IN IF ends = {} THEN <<alo, blo, 0>>
     ELSE LET best == CHOOSE p \in ends :
                        \A q \in ends : /\ size(q) <= size(p)
                                        /\ (size(q) = size(p) /\ q # p) => before(p, q)
              k == size(best)
          IN <<best[1] - k + 1, best[2] - k + 1, k>>

\* get_matching_blocks, summed: the total size of the matching blocks.
RECURSIVE Matches(_, _, _, _, _, _)
Matches(a, b, alo, ahi, blo, bhi) ==
  LET m == FindLongestMatch(a, b, alo, ahi, blo, bhi)
      i == m[1]
      j == m[2]
      k == m[3]
  IN IF k = 0 THEN 0
     ELSE k + (IF alo < i /\ blo < j THEN Matches(a, b, alo, i, blo, j) ELSE 0)
            + (IF i + k < ahi /\ j + k < bhi
                 THEN Matches(a, b, i + k, ahi, j + k, bhi) ELSE 0)

\* ratio() as the fraction <<numerator, denominator>>: 2.0*matches/length,
\* and 1.0 when both strings are empty.
Ratio(a, b) ==
  LET length == Len(a) + Len(b)
  IN IF length > 0 THEN <<2 * Matches(a, b, 0, Len(a), 0, Len(b)), length>>
     ELSE <<1, 1>>

\* The ratio of each pair of lower-cased labels, computed once.
LowerRatio ==
  [p \in Labels \X Labels |-> Ratio(Lower(Chars[p[1]]), Lower(Chars[p[2]]))] @@ <<>>

\* Variant: strictly above the threshold.
IsMatchStrict(str1, str2, thr) ==
  LET r == LowerRatio[<<str1, str2>>]
  IN 10 * r[1] > thr * r[2]

\* BPMNEvaluator._is_match:
\* SequenceMatcher(None, str1.lower(), str2.lower()).ratio() >= self.threshold
_is_match(str1, str2, thr) ==
  LET r == LowerRatio[<<str1, str2>>]
  IN 10 * r[1] >= thr * r[2]


\* ------------------------------------------------------------ list helpers
\* list.index-like: position of the first element equal to x, 0 when absent.
RECURSIVE IndexOf(_, _, _)
IndexOf(list, x, from) ==
  IF from > Len(list) THEN 0
  ELSE IF list[from] = x THEN from
  ELSE IndexOf(list, x, from + 1)

WithoutAt(list, n) ==
  [k \in 1..(Len(list) - 1) |-> IF k < n THEN list[k] ELSE list[k + 1]]

\* Variant: drops every element equal to x.
RemoveAll(list, x) == SelectSeq(list, LAMBDA e : e # x)

\* list.remove(x): drops the first element equal to x (ValueError when absent).
Remove(list, x) == WithoutAt(list, IndexOf(list, x, 1))

\* Variant: the best-scoring passing label instead of the first one.
BestMatch(extracted, remaining, thr, from) ==
  LET passing == {k \in from..Len(remaining) : _is_match(extracted, remaining[k], thr)}
      score(k) == LowerRatio[<<extracted, remaining[k]>>]
  IN IF passing = {} THEN 0
     ELSE CHOOSE k \in passing :
            \A m \in passing :
              \/ score(k)[1] * score(m)[2] > score(m)[1] * score(k)[2]
              \/ (score(k)[1] * score(m)[2] = score(m)[1] * score(k)[2] /\ k <= m)

\* The inner loop `for gt in remaining_gt: if self._is_match(extracted, gt): ... break`:
\* the position of the first label of remaining that passes, 0 when none does.
RECURSIVE FirstMatch(_, _, _, _)
FirstMatch(extracted, remaining, thr, from) ==
  IF from > Len(remaining) THEN 0
  ELSE IF _is_match(extracted, remaining[from], thr) THEN from
  ELSE FirstMatch(extracted, remaining, thr, from + 1)

\* `tp / (tp + fp)`: the quotient as a fraction; denominator 0 is ZeroDivisionError.
TrueDiv(n, d) == <<n, d>>

\* Variant: an empty denominator counts as a perfect score.
GuardedOne(tp, other) == IF (tp + other) > 0 THEN TrueDiv(tp, tp + other) ELSE <<1, 1>>

\* Variant: no guard.
Unguarded(tp, other) == TrueDiv(tp, tp + other)

\* `tp / (tp + fp) if (tp + fp) > 0 else 0.0`  and the same for recall.
Guarded(tp, other) == IF (tp + other) > 0 THEN TrueDiv(tp, tp + other) ELSE <<0, 1>>

\* Variant: cut after two decimals.
Truncate2(q) == (100 * q[1]) \div q[2]

\* round(x, 2) in hundredths: nearest, exact halves to the even neighbour.
Round2(q) ==
  LET n == 100 * q[1]
      lo == n \div q[2]
      rest == n % q[2]
  IN IF 2 * rest < q[2] THEN lo
     ELSE IF 2 * rest > q[2] THEN lo + 1
     ELSE IF lo % 2 = 0 THEN lo ELSE lo + 1

\* ------------------------------------------------------------------ state
NumCases == Len(test_cases)
LocalRef == 0                 \* the list object made by ground_truth_list[:]
Refs == 0..NumCases           \* 1..NumCases: the ground_truth lists of the callers

VARIABLES
  heap,               \* list object -> its current content
  threshold,          \* evaluator.threshold (tenths)
  ground_truth_list,  \* calculate_metrics parameter (a reference)
  extracted_list,     \* calculate_metrics parameter
  remaining_gt,       \* local: reference to the working list
  true_positives,     \* local
  false_positives,    \* local
  pos,                \* position of `for extracted in extracted_list`
  epc,                \* "idle", "loop", "returned", "raised"
  metrics,            \* the returned dict (module-level `metrics` in the driver)
  calls,              \* number of calls made by the caller
  previous,           \* result of the caller's previous call
  dpc,                \* position of the driver loop
  case,               \* index of `for case in test_cases`
  data,               \* what the generator / parser produced for this case
  key,                \* position of `for key in ["tasks", "gateways", "events"]`
  extracted_flat,     \* module-level list handed to the evaluator
  stdout              \* what has been printed

evars == <<heap, threshold, ground_truth_list, extracted_list, remaining_gt,
           true_positives, false_positives, pos, epc, metrics>>
dvars == <<dpc, case, data, key, stdout>>
vars == <<heap, threshold, ground_truth_list, extracted_list, remaining_gt,
          true_positives, false_positives, pos, epc, metrics, calls, previous,
          dpc, case, data, key, extracted_flat, stdout>>

NoMetrics == [precision |-> 0, recall |-> 0, tp |-> <<>>, fp |-> <<>>, fn |-> <<>>]

\* The keys read from the response object, and `data` before a reply is parsed.
Keys == <<"tasks", "gateways", "events">>
KeyNames == {Keys[k] : k \in 1..Len(Keys)}
EmptyDoc == [k \in KeyNames |-> [kind |-> "missing", items |-> <<>>]]
NoData == [shape |-> "none", doc |-> EmptyDoc]

\* --------------------------------------------------- calculate_metrics
\* Variant: `remaining_gt = ground_truth_list`, the same list object.
AliasRef(ref) == ref

\* `remaining_gt = ground_truth_list[:]` binds remaining_gt to a new list object.
SliceCopyRef(ref) == LocalRef

\* Lines 22-26: entry with the two arguments.
Call(gtref, ex) ==
  /\ epc = "idle"
  /\ ground_truth_list' = gtref
  /\ extracted_list' = ex
  /\ true_positives' = <<>>
  /\ false_positives' = <<>>
  /\ remaining_gt' = SliceCopyRef(gtref)
  /\ heap' = [heap EXCEPT ![SliceCopyRef(gtref)] = heap[gtref]]
  /\ pos' = 1
  /\ epc' = "loop"
  /\ UNCHANGED <<threshold, metrics>>

\* Variant: the matched ground-truth label is recorded.
RecordedGt(extracted, matched_gt) == matched_gt

\* What line 40 appends to true_positives.
Recorded(extracted, matched_gt) == extracted

\* Lines 28-43: one iteration of `for extracted in extracted_list`.
LoopBody ==
  /\ epc = "loop"
  /\ pos <= Len(extracted_list)
  /\ LET extracted == extracted_list[pos]
         remaining == heap[remaining_gt]
         found == FirstMatch(extracted, remaining, threshold, 1)
     IN IF remaining # <<>> /\ ~IsStr(extracted)
          THEN \* extracted.lower(): AttributeError
               /\ epc' = "raised"
               /\ UNCHANGED <<heap, true_positives, false_positives, pos>>
        ELSE IF remaining # <<>> /\ found > 0
          THEN /\ true_positives' = Append(true_positives, Recorded(extracted, remaining[found]))
               /\ IF IndexOf(remaining, remaining[found], 1) > 0
                    THEN /\ heap' = [heap EXCEPT ![remaining_gt] = Remove(remaining, remaining[found])]
                         /\ pos' = pos + 1
                         /\ epc' = "loop"
                    ELSE \* list.remove(x): x not in list
                         /\ epc' = "raised"
                         /\ UNCHANGED <<heap, pos>>
               /\ UNCHANGED false_positives
        ELSE /\ false_positives' = Append(false_positives, extracted)
             /\ pos' = pos + 1
             /\ UNCHANGED <<heap, true_positives, epc>>
  /\ UNCHANGED <<threshold, ground_truth_list, extracted_list, remaining_gt, metrics>>

\* Lines 45-59: the counts, the two quotients and the returned dict.
Finish ==
  /\ epc = "loop"
  /\ pos > Len(extracted_list)
  /\ LET tp == Len(true_positives)
         fp == Len(false_positives)
         fn == Len(heap[remaining_gt])
         precision == Guarded(tp, fp)
         recall == Guarded(tp, fn)
     IN IF precision[2] = 0 \/ recall[2] = 0
          THEN \* ZeroDivisionError
               /\ epc' = "raised"
               /\ UNCHANGED metrics
          ELSE /\ metrics' = [precision |-> Round2(precision),
                              recall |-> Round2(recall),
                              tp |-> true_positives,
                              fp |-> false_positives,
                              fn |-> heap[remaining_gt]]
               /\ epc' = "returned"
  /\ UNCHANGED <<heap, threshold, ground_truth_list, extracted_list, remaining_gt,
                 true_positives, false_positives, pos>>

\* ------------------------------------- the evaluator called on its own
Thresholds == {DriverThreshold, DefaultThreshold, 10}

SeqsUpTo(S, n) == UNION {[1..m -> S] : m \in 0..n}

InitEval ==
  /\ \E gt \in SeqsUpTo(EvalLabels, MaxGt) :
       heap = [r \in Refs |-> IF r = 1 THEN gt ELSE <<>>]
  /\ threshold \in Thresholds
  /\ extracted_flat \in SeqsUpTo(EvalLabels, MaxEx)
  /\ ground_truth_list = 1
  /\ extracted_list = <<>>
  /\ remaining_gt = LocalRef
  /\ true_positives = <<>>
  /\ false_positives = <<>>
  /\ pos = 1
  /\ epc = "idle"
  /\ metrics = NoMetrics
  /\ calls = 0
  /\ previous = NoMetrics
  /\ dpc = "test"
  /\ case = 1
  /\ data = NoData
  /\ key = 1
  /\ stdout = <<>>

\* The caller calls calculate_metrics(ground_truth, extracted) with its two lists.
CallerCall ==
  /\ dpc = "test"
  /\ calls < MaxCalls
  /\ Call(case, extracted_flat)
  /\ calls' = calls + 1
  /\ UNCHANGED <<previous, dvars, extracted_flat>>

\* The caller takes the returned dict.
CallerReturn ==
  /\ dpc = "test"
  /\ epc = "returned"
  /\ previous' = metrics
  /\ epc' = "idle"
  /\ UNCHANGED <<heap, threshold, ground_truth_list, extracted_list, remaining_gt,
                 true_positives, false_positives, pos, metrics, calls, dvars,
                 extracted_flat>>

EvalStep ==
  /\ (LoopBody \/ Finish)
  /\ UNCHANGED <<calls, previous, dvars, extracted_flat>>

NextEval == CallerCall \/ CallerReturn \/ EvalStep

SpecEval == InitEval /\ [][NextEval]_vars


\* ------------------------------------------------------------ driver loop
MaxKeyLen == 1     \* longest list under one key of a response

\* What a key of the response object may hold: the key is absent, its value is
\* null, or it is a list whose elements are labels or non-strings.
Elements == {R_gate, NonString}
KeyValues ==
  {[kind |-> "missing", items |-> <<>>], [kind |-> "null", items |-> <<>>]}
    \cup {[kind |-> "list", items |-> l] : l \in SeqsUpTo(Elements, MaxKeyLen)}
Documents == [KeyNames -> KeyValues]

\* The reply text of the generator, by its shape:
\*   "object"         the text is one JSON object
\*   "wrapped"        prose or a markdown fence around one JSON object
\*   "trailing_brace" a JSON object followed by text that holds another "}"
\*   "no_json"        no braces, and not JSON once the fences are stripped
\*   "not_object"     no braces, JSON once the fences are stripped (array, number)
Shapes == {"object", "wrapped", "trailing_brace", "no_json", "not_object"}
Responses ==
  {[shape |-> sh, doc |-> d] : sh \in {"object", "wrapped"}, d \in Documents}
    \cup {[shape |-> sh, doc |-> EmptyDoc] : sh \in {"trailing_brace", "no_json", "not_object"}}

\* Lines 165-171: re.search(r'\{.*\}', text, re.DOTALL) takes the span from the
\* first "{" to the last "}"; json.loads of that span, or of the fence-stripped
\* text when there is no span.  "raise" is json.JSONDecodeError.
ParseResponse(response) ==
  CASE response.shape \in {"object", "wrapped"} -> [shape |-> "dict", doc |-> response.doc]
    [] response.shape = "not_object" -> [shape |-> "not_dict", doc |-> EmptyDoc]
    [] OTHER -> [shape |-> "raise", doc |-> EmptyDoc]

\* Variant: the except block leaves extracted_flat alone.
HandlerKeep(current) == current

\* Line 184: what the except block binds extracted_flat to.
HandlerList(current) == <<>>

Entry(kind, name, precision, recall) ==
  [kind |-> kind, name |-> name, precision |-> precision, recall |-> recall]

InitDriver ==
  /\ heap = [r \in Refs |-> IF r = LocalRef THEN <<>> ELSE test_cases[r].ground_truth]
  /\ threshold = DriverThreshold
  /\ extracted_flat = <<>>     \* not bound yet; bound by line 174 or 184 before any use
  /\ ground_truth_list = 1
  /\ extracted_list = <<>>
  /\ remaining_gt = LocalRef
  /\ true_positives = <<>>
  /\ false_positives = <<>>
  /\ pos = 1
  /\ epc = "idle"
  /\ metrics = NoMetrics
  /\ calls = 0
  /\ previous = NoMetrics
  /\ dpc = "build"
  /\ case = 1
  /\ data = NoData
  /\ key = 1
  /\ stdout = <<Entry("header", "TEST CASE", 0, 0)>>

\* Lines 152-155: prompt_builder.run with the fixed template and both of its
\* required variables.
BuildPrompt ==
  /\ dpc = "build"
  /\ dpc' = "generate"
  /\ UNCHANGED <<evars, calls, previous, case, data, key, extracted_flat, stdout>>

\* Lines 160-161: llm.run and result["replies"][0].content, inside the try block.
Generate ==
  /\ dpc = "generate"
  /\ \/ \E r \in Responses : data' = r /\ dpc' = "parse"
     \/ data' = data /\ dpc' = "except"
  /\ UNCHANGED <<evars, calls, previous, case, key, extracted_flat, stdout>>

\* Lines 165-174: parse the reply, then `extracted_flat = []`.
Parse ==
  /\ dpc = "parse"
  /\ LET parsed == ParseResponse(data)
     IN IF parsed.shape = "raise"
          THEN /\ dpc' = "except"
               /\ UNCHANGED <<data, extracted_flat, key>>
          ELSE /\ data' = parsed
               /\ extracted_flat' = <<>>
               /\ key' = 1
               /\ dpc' = "flatten"
  /\ UNCHANGED <<evars, calls, previous, case, stdout>>

\* Lines 175-176: one `extracted_flat.extend(data.get(key, []))`.
\* `data` and `key` are rebound before they are read again (lines 168/171 and
\* 175), so they are dropped from the state once the try statement is left.
Flatten ==
  /\ dpc = "flatten"
  /\ IF data.shape # "dict"
       THEN \* list / number has no .get: AttributeError
            /\ dpc' = "except"
            /\ UNCHANGED <<key, extracted_flat, data>>
       ELSE LET value == data.doc[Keys[key]]
            IN IF value.kind = "null"
                 THEN \* extend(None): TypeError
                      /\ dpc' = "except"
                      /\ UNCHANGED <<key, extracted_flat, data>>
                 ELSE /\ extracted_flat' = extracted_flat \o value.items
                      /\ IF key < Len(Keys)
                           THEN key' = key + 1 /\ dpc' = "flatten" /\ data' = data
                           ELSE key' = 1 /\ dpc' = "evaluate" /\ data' = NoData
  /\ UNCHANGED <<evars, calls, previous, case, stdout>>

\* Lines 178-184: the except block.
Except ==
  /\ dpc = "except"
  /\ stdout' = Append(stdout, Entry("error", test_cases[case].name, 0, 0))
  /\ extracted_flat' = HandlerList(extracted_flat)
  /\ dpc' = "evaluate"
  /\ data' = NoData
  /\ key' = 1
  /\ UNCHANGED <<evars, calls, previous, case>>

\* Line 187: the call of evaluator.calculate_metrics.
Evaluate ==
  /\ dpc = "evaluate"
  /\ Call(case, extracted_flat)
  /\ dpc' = "evaluating"
  /\ UNCHANGED <<calls, previous, case, data, key, extracted_flat, stdout>>

\* calculate_metrics running on behalf of the driver.
Evaluating ==
  /\ dpc = "evaluating"
  /\ (LoopBody \/ Finish)
  /\ UNCHANGED <<calls, previous, dvars, extracted_flat>>

\* An exception raised by calculate_metrics is outside the try block.
Propagate ==
  /\ dpc = "evaluating"
  /\ epc = "raised"
  /\ dpc' = "uncaught"
  /\ UNCHANGED <<evars, calls, previous, case, data, key, extracted_flat, stdout>>

\* Line 190: print the row, then the next case.
PrintRow ==
  /\ dpc = "evaluating"
  /\ epc = "returned"
  /\ stdout' = Append(stdout, Entry("row", test_cases[case].name,
                                    metrics.precision, metrics.recall))
  /\ epc' = "idle"
  /\ IF case < NumCases
       THEN case' = case + 1 /\ dpc' = "build"
       ELSE case' = case /\ dpc' = "end"
  /\ UNCHANGED <<heap, threshold, ground_truth_list, extracted_list, remaining_gt,
                 true_positives, false_positives, pos, metrics, calls, previous,
                 data, key, extracted_flat>>

NextDriver ==
  \/ BuildPrompt \/ Generate \/ Parse \/ Flatten \/ Except
  \/ Evaluate \/ Evaluating \/ Propagate \/ PrintRow

SpecDriver == InitDriver /\ [][NextDriver]_vars


\* ================================================================ claims
RECURSIVE IsSubseq(_, _)
IsSubseq(s, t) ==
  IF s = <<>> THEN TRUE
  ELSE IF t = <<>> THEN FALSE
  ELSE IF s[1] = t[1] THEN IsSubseq(Tail(s), Tail(t))
  ELSE IsSubseq(s, Tail(t))

\* c is a merge of a and b that keeps the order of both.
RECURSIVE Interleaves(_, _, _)
Interleaves(a, b, c) ==
  IF c = <<>> THEN a = <<>> /\ b = <<>>
  ELSE \/ a # <<>> /\ a[1] = c[1] /\ Interleaves(Tail(a), b, Tail(c))
       \/ b # <<>> /\ b[1] = c[1] /\ Interleaves(a, Tail(b), Tail(c))

Elems(list) == {list[k] : k \in 1..Len(list)}

GroundTruth == heap[ground_truth_list]
Returned == epc = "returned"

\* C1: while calculate_metrics runs and when it has returned, the working list
\* is the ground truth with exactly one position dropped per true positive,
\* and every extracted position handled so far is in exactly one of tp / fp:
\* len(tp) + len(fp) = len(extracted), len(tp) + len(fn) = len(ground_truth),
\* len(tp) <= len(ground_truth).
C1_Partition ==
  /\ epc = "loop" =>
       /\ Len(true_positives) + Len(false_positives) = pos - 1
       /\ Len(true_positives) + Len(heap[remaining_gt]) = Len(GroundTruth)
       /\ IsSubseq(heap[remaining_gt], GroundTruth)
  /\ Returned =>
       /\ Len(metrics.tp) + Len(metrics.fp) = Len(extracted_list)
       /\ Len(metrics.tp) + Len(metrics.fn) = Len(GroundTruth)
       /\ Len(metrics.tp) <= Len(GroundTruth)
       /\ IsSubseq(metrics.fn, GroundTruth)

C1_Witness ==
  /\ Returned
  /\ Len(GroundTruth) = 2 /\ GroundTruth[1] = GroundTruth[2]
  /\ Len(metrics.tp) = 1 /\ Len(metrics.fn) = 1 /\ Len(metrics.fp) >= 1

\* The reference greedy matcher: the state after the first n extracted labels.
RefFirst(e, remaining, thr) ==
  LET passing == {k \in 1..Len(remaining) : _is_match(e, remaining[k], thr)}
  IN IF passing = {} THEN 0 ELSE CHOOSE k \in passing : \A m \in passing : k <= m

RECURSIVE RefGreedy(_, _, _, _)
RefGreedy(gt, ex, n, thr) ==
  IF n = 0 THEN [tp |-> <<>>, fp |-> <<>>, remaining |-> gt]
  ELSE LET before == RefGreedy(gt, ex, n - 1, thr)
           k == RefFirst(ex[n], before.remaining, thr)
       IN IF k > 0
            THEN [tp |-> Append(before.tp, ex[n]),
                  fp |-> before.fp,
                  remaining |-> SubSeq(before.remaining, 1, k - 1)
                                  \o SubSeq(before.remaining, k + 1, Len(before.remaining))]
            ELSE [tp |-> before.tp,
                  fp |-> Append(before.fp, ex[n]),
                  remaining |-> before.remaining]

\* C2: after every iteration, and in the returned dict, tp / fp / remaining are
\* those of the reference greedy matcher (first passing label in the current
\* order of remaining, exactly that occurrence removed).
C2_Greedy ==
  /\ epc = "loop" =>
       LET ref == RefGreedy(GroundTruth, extracted_list, pos - 1, threshold)
       IN /\ true_positives = ref.tp
          /\ false_positives = ref.fp
          /\ heap[remaining_gt] = ref.remaining
  /\ Returned =>
       LET ref == RefGreedy(GroundTruth, extracted_list, Len(extracted_list), threshold)
       IN /\ metrics.tp = ref.tp
          /\ metrics.fp = ref.fp
          /\ metrics.fn = ref.remaining

\* "abc" takes the first passing label "ab" (0.8) although "abc" itself follows.
C2_Witness ==
  /\ Returned
  /\ threshold <= DefaultThreshold
  /\ GroundTruth = <<"ab", "abc">>
  /\ extracted_list = <<"abc", "ab">>
  /\ metrics.tp = <<"abc", "ab">>
  /\ metrics.fn = <<>>

\* C3 as stated: extracted == ground_truth gives tp = len, fp = 0, fn = 0 and
\* precision = recall = 1.0, the empty sequence included.
C3_Original ==
  (Returned /\ extracted_list = GroundTruth) =>
    /\ Len(metrics.tp) = Len(GroundTruth)
    /\ metrics.fp = <<>>
    /\ metrics.fn = <<>>
    /\ metrics.precision = 100
    /\ metrics.recall = 100

\* C3 amended: extracted == ground_truth gives tp = len, fp = 0, fn = 0;
\* precision = recall = 1.0 when the sequence is not empty and 0.0 when it is.
C3_Identity ==
  (Returned /\ extracted_list = GroundTruth) =>
    /\ metrics.tp = extracted_list
    /\ metrics.fp = <<>>
    /\ metrics.fn = <<>>
    /\ metrics.precision = (IF GroundTruth = <<>> THEN 0 ELSE 100)
    /\ metrics.recall = (IF GroundTruth = <<>> THEN 0 ELSE 100)

C3_Witness ==
  /\ Returned
  /\ threshold = 10
  /\ extracted_list = GroundTruth
  /\ GroundTruth = <<"ab", "ab">>
  /\ metrics.precision = 100

NoPairSimilar ==
  \A i \in 1..Len(extracted_list) : \A j \in 1..Len(GroundTruth) :
    ~_is_match(extracted_list[i], GroundTruth[j], threshold)

\* C4: when no (extracted, ground-truth) pair passes the similarity check (an
\* empty sequence included): tp = 0, fp = extracted, fn = ground truth,
\* precision = recall = 0.0.
C4_Disjoint ==
  (Returned /\ NoPairSimilar) =>
    /\ metrics.tp = <<>>
    /\ metrics.fp = extracted_list
    /\ metrics.fn = GroundTruth
    /\ metrics.precision = 0
    /\ metrics.recall = 0

C4_Witness ==
  /\ Returned
  /\ NoPairSimilar
  /\ Len(extracted_list) >= 2
  /\ Len(GroundTruth) >= 2
  /\ metrics.recall = 0

\* C5: no step changes the caller's ground-truth list, its extracted list or
\* the threshold, and a repeated call with the same arguments returns the same
\* dict as the call before.
C5_NoMutation ==
  [][/\ heap'[case] = heap[case]
     /\ extracted_flat' = extracted_flat
     /\ threshold' = threshold
     /\ (calls' >= 2 /\ epc' = "returned") => metrics' = previous']_vars

C5_Witness ==
  /\ Returned
  /\ calls = 2
  /\ Len(metrics.tp) >= 1
  /\ metrics = previous
  /\ heap[LocalRef] # heap[case]

LastIsError ==
  /\ stdout[Len(stdout)].kind = "error"
  /\ stdout[Len(stdout)].name = test_cases[case].name

\* C6: when the try block of a test case raised, the list handed to the
\* evaluator is empty, and the row printed after the diagnostic block shows
\* precision 0.0 and recall 0.0.
C6_EmptyOnFailure ==
  /\ (dpc \in {"evaluate", "evaluating"} /\ LastIsError) => extracted_flat = <<>>
  /\ (dpc = "evaluating" /\ LastIsError) => extracted_list = <<>>
  /\ \A k \in 2..Len(stdout) :
       (stdout[k].kind = "row" /\ stdout[k - 1].kind = "error") =>
         /\ stdout[k].name = stdout[k - 1].name
         /\ stdout[k].precision = 0
         /\ stdout[k].recall = 0

\* A case fails after an earlier case printed a row with matches.
C6_Witness ==
  /\ Len(stdout) = 4
  /\ stdout[2].kind = "row" /\ stdout[2].precision > 0
  /\ stdout[3].kind = "error"
  /\ stdout[4].kind = "row" /\ stdout[4].precision = 0 /\ stdout[4].recall = 0

RowNames == 
  LET rows == SelectSeq(stdout, LAMBDA e : e.kind = "row")
  IN [k \in 1..Len(rows) |-> rows[k].name]

\* C7: no exception leaves an iteration of the driver loop, and when the loop is
\* over there is exactly one row per test case, in test-case order.
C7_NoEscape ==
  /\ dpc # "uncaught"
  /\ dpc = "end" => RowNames = [k \in 1..NumCases |-> test_cases[k].name]

\* p (hundredths) is a nearest hundredth of n / d.
Nearest(p, n, d) ==
  LET diff == p * d - 100 * n
  IN 2 * (IF diff < 0 THEN -diff ELSE diff) <= d

\* C8: the reported precision is tp / (tp + fp) rounded to two decimals, 0.0
\* when tp + fp = 0; the reported recall is tp / (tp + fn) rounded to two
\* decimals, 0.0 when tp + fn = 0; both lie in [0.0, 1.0].
C8_Scores ==
  Returned =>
    LET tp == Len(metrics.tp)
        fp == Len(metrics.fp)
        fn == Len(metrics.fn)
    IN /\ (tp + fp = 0) => metrics.precision = 0
       /\ (tp + fp > 0) => Nearest(metrics.precision, tp, tp + fp)
       /\ (tp + fn = 0) => metrics.recall = 0
       /\ (tp + fn > 0) => Nearest(metrics.recall, tp, tp + fn)
       /\ metrics.precision \in 0..100
       /\ metrics.recall \in 0..100

C8_Witness ==
  /\ Returned
  /\ metrics.precision = 33
  /\ metrics.recall = 50

\* C9: calculate_metrics never raises, and every call returns: a running
\* call can always take a step, and each step either returns or moves on to the
\* next extracted label, of which there are Len(extracted_list).
C9_Total ==
  /\ [](epc # "raised")
  /\ [](epc = "loop" => (pos <= Len(extracted_list) + 1 /\ ENABLED EvalStep))
  /\ [][epc = "loop" =>
          \/ epc' = "returned"
          \/ epc' = "loop" /\ pos' = pos + 1]_vars

\* Both lists empty: both quotients are guarded.
C9_Witness ==
  /\ Returned
  /\ extracted_list = <<>>
  /\ GroundTruth = <<>>
  /\ metrics = NoMetrics

\* C10: tp and fp are subsequences of the extracted list that merge back to
\* it in order (they hold the extracted labels, not the ground-truth labels),
\* and fn is a subsequence of the ground-truth list.
C10_Order ==
  Returned =>
    /\ IsSubseq(metrics.tp, extracted_list)
    /\ IsSubseq(metrics.fp, extracted_list)
    /\ Interleaves(metrics.tp, metrics.fp, extracted_list)
    /\ IsSubseq(metrics.fn, GroundTruth)

\* "AB" matched "ab": the recorded label is the extracted one.
C10_Witness ==
  /\ Returned
  /\ GroundTruth = <<"abc", "ab">>
  /\ extracted_list = <<"bc", "AB", "bc">>
  /\ metrics.tp = <<"bc", "AB">>
  /\ metrics.fp = <<"bc">>

====
